---- MODULE Spec2Model ----
(***************************************************************************)
(* safeQueryBuilder (src/safeQueryBuilder/index.js): builders that turn a   *)
(* declarative query description plus a table/column whitelist into a SQL  *)
(* statement text and an ordered list of bound values.                     *)
(*                                                                         *)
(* Statement text is modelled as the sequence of its tokens (keywords,     *)
(* identifiers, punctuation, the placeholder "?"); white space between     *)
(* tokens is not modelled.  JavaScript values are tagged records.          *)
(***************************************************************************)
EXTENDS Integers, Sequences, FiniteSets, TLC

VARIABLES fn, args, ret, pc, executed, locals

vars == <<fn, args, ret, pc, executed, locals>>

(***************************************************************************)
(* Bounds of the explored inputs.                                          *)
(***************************************************************************)
MaxEntries == 2   \* entries of a data / where / row object
MaxOnDup == 2     \* names in an onDuplicate list
MaxRows == 2      \* rows of a batch insert
MaxList == 3      \* elements of an array value (IN list, BETWEEN range)
MaxNum == 20      \* largest number a numeric string is parsed to
MaxTotal == 1     \* largest `total` a count execution reports

(***************************************************************************)
(* JavaScript values.                                                      *)
(***************************************************************************)
Num(n) == [kind |-> "number", n |-> n]
Str(s) == [kind |-> "string", s |-> s]
Arr(items) == [kind |-> "array", items |-> items]
Null == [kind |-> "null"]
Undefined == [kind |-> "undefined"]
NaN == [kind |-> "NaN"]

\* typeof v
TypeOf(v) ==
  CASE v.kind = "number" -> "number"
    [] v.kind = "NaN" -> "number"
    [] v.kind = "string" -> "string"
    [] v.kind = "undefined" -> "undefined"
    [] OTHER -> "object"

IsArray(v) == v.kind = "array"

\* the truthiness of v, as `if (v)`, `v || d` and `v ? a : b` read it
Truthy(v) ==
  CASE v.kind = "number" -> v.n # 0
    [] v.kind = "NaN" -> FALSE
    [] v.kind = "string" -> v.s # ""
    [] v.kind = "null" -> FALSE
    [] v.kind = "undefined" -> FALSE
    [] OTHER -> TRUE

RECURSIVE JoinStr(_, _)
JoinStr(strs, sep) ==
  IF strs = <<>> THEN ""
  ELSE IF Len(strs) = 1 THEN strs[1]
  ELSE strs[1] \o sep \o JoinStr(Tail(strs), sep)

\* String(v), the conversion a template literal `${v}` applies
RECURSIVE ToStr(_)
ToStr(v) ==
  CASE v.kind = "number" -> ToString(v.n)
    [] v.kind = "NaN" -> "NaN"
    [] v.kind = "string" -> v.s
    [] v.kind = "null" -> "null"
    [] v.kind = "undefined" -> "undefined"
    [] v.kind = "array" ->
         JoinStr([i \in 1..Len(v.items) |->
                    IF v.items[i].kind \in {"null", "undefined"} THEN ""
                    ELSE ToStr(v.items[i])], ",")
    [] OTHER -> "[object Object]"

\* the number a string denotes: "" is 0, a decimal numeral its value, else NaN
ParseNumber(s) ==
  IF s = "" THEN Num(0)
  ELSE IF \E n \in 0..MaxNum : ToString(n) = s
       THEN Num(CHOOSE n \in 0..MaxNum : ToString(n) = s)
       ELSE NaN

\* Number(v)
ToNumber(v) ==
  CASE v.kind = "number" -> v
    [] v.kind = "NaN" -> NaN
    [] v.kind = "string" -> ParseNumber(v.s)
    [] v.kind = "null" -> Num(0)
    [] v.kind = "undefined" -> NaN
    [] v.kind = "array" -> ParseNumber(ToStr(v))
    [] OTHER -> NaN

(***************************************************************************)
(* Arrays of strings and plain objects.  An object is the sequence of its  *)
(* entries [key, val] in iteration order, keys pairwise distinct.          *)
(***************************************************************************)
Includes(arr, x) == \E i \in 1..Len(arr) : arr[i] = x

ObjectKeys(obj) == [i \in 1..Len(obj) |-> obj[i].key]

\* obj[k]
Prop(obj, k) ==
  IF \E i \in 1..Len(obj) : obj[i].key = k
  THEN obj[CHOOSE i \in 1..Len(obj) : obj[i].key = k].val
  ELSE Undefined

\* toks.join(sep) on token sequences: the separator token between elements
RECURSIVE JoinTok(_, _)
JoinTok(toks, sep) ==
  IF toks = <<>> THEN <<>>
  ELSE IF Len(toks) = 1 THEN toks[1]
  ELSE toks[1] \o <<sep>> \o JoinTok(Tail(toks), sep)

RECURSIVE Flatten(_)
Flatten(seqs) == IF seqs = <<>> THEN <<>> ELSE Head(seqs) \o Flatten(Tail(seqs))

\* the number of "?" placeholders of a statement text
RECURSIVE Placeholders(_)
Placeholders(text) ==
  IF text = <<>> THEN 0
  ELSE (IF Head(text) = "?" THEN 1 ELSE 0) + Placeholders(Tail(text))

\* throw new Error(msg)
Throw(msg) == [ok |-> FALSE, error |-> msg]

Pending == [ok |-> FALSE, error |-> "pending"]

(***************************************************************************)
(* UPDATE / DELETE                                                         *)
(***************************************************************************)
\* the loop `for (const [key, val] of Object.entries(where))` of updateQuery
\* and deleteQuery; acc is <<whereClause, values>> or a thrown error
RECURSIVE WhereLoop(_, _, _)
WhereLoop(entries, allowedColumns, acc) ==
  IF entries = <<>> THEN acc
  ELSE IF ~Includes(allowedColumns, Head(entries).key)
       THEN Throw("WHERE column is not allowed.")
       ELSE WhereLoop(Tail(entries), allowedColumns,
              [ok |-> TRUE,
               text |-> acc.text \o <<"AND", Head(entries).key, "=", "?">>,
               values |-> Append(acc.values, Head(entries).val)])

\* the loop over Object.entries(data) of updateQuery
RECURSIVE SetLoop(_, _, _)
SetLoop(entries, allowedColumns, acc) ==
  IF entries = <<>> THEN acc
  ELSE IF ~Includes(allowedColumns, Head(entries).key)
       THEN Throw("Column is not allowed for update.")
       ELSE SetLoop(Tail(entries), allowedColumns,
              [ok |-> TRUE,
               setParts |-> Append(acc.setParts, <<Head(entries).key, "=", "?">>),
               values |-> Append(acc.values, Head(entries).val)])

updateQuery(a) ==
  IF ~Includes(a.allowedTables, a.table) THEN Throw("Table is not allowed.")
  ELSE LET set == SetLoop(a.data, a.allowedColumns,
                          [ok |-> TRUE, setParts |-> <<>>, values |-> <<>>])
       IN IF ~set.ok THEN set
          ELSE IF Len(set.setParts) = 0 THEN Throw("No valid fields to update.")
          ELSE LET w == WhereLoop(a.where, a.allowedColumns,
                          [ok |-> TRUE, text |-> <<"WHERE", "1=1">>,
                           values |-> set.values])
               IN IF ~w.ok THEN w
                  ELSE [ok |-> TRUE,
                        query |-> <<"UPDATE", a.table, "SET">>
                                  \o JoinTok(set.setParts, ",") \o w.text,
                        values |-> w.values]

deleteQueryNoGuard(a) ==
  IF ~Includes(a.allowedTables, a.table) THEN Throw("Table is not allowed.")
  ELSE LET w == WhereLoop(a.where, a.allowedColumns,
                          [ok |-> TRUE, text |-> <<"WHERE", "1=1">>, values |-> <<>>])
       IN IF ~w.ok THEN w
          ELSE [ok |-> TRUE,
                query |-> <<"DELETE FROM", a.table>> \o w.text,
                values |-> w.values]

deleteQuery(a) ==
  IF ~Includes(a.allowedTables, a.table) THEN Throw("Table is not allowed.")
  ELSE IF Len(ObjectKeys(a.where)) = 0
       THEN Throw("DELETE must have a WHERE condition to prevent full-table deletion.")
  ELSE LET w == WhereLoop(a.where, a.allowedColumns,
                          [ok |-> TRUE, text |-> <<"WHERE", "1=1">>, values |-> <<>>])
       IN IF ~w.ok THEN w
          ELSE [ok |-> TRUE,
                query |-> <<"DELETE FROM", a.table>> \o w.text,
                values |-> w.values]

(***************************************************************************)
(* INSERT                                                                  *)
(***************************************************************************)
\* the ON DUPLICATE KEY UPDATE tail of insertOneQuery
OnDuplicateClause(onDuplicate, allowedColumns, keys) ==
  IF Len(onDuplicate) = 0 THEN <<>>
  ELSE LET kept == SelectSeq(onDuplicate,
                     LAMBDA key : Includes(allowedColumns, key) /\ Includes(keys, key))
           updates == [i \in 1..Len(kept) |->
                         <<kept[i], "=", "VALUES", "(", kept[i], ")">>]
       IN IF Len(updates) = 0 THEN <<>>
          ELSE <<"ON DUPLICATE KEY UPDATE">> \o JoinTok(updates, ",")

insertOneQuery(a) ==
  IF ~Includes(a.allowedTables, a.table) THEN Throw("Table is not allowed.")
  ELSE LET keys == SelectSeq(ObjectKeys(a.data),
                          LAMBDA key : Includes(a.allowedColumns, key))
       IN IF Len(keys) = 0 THEN Throw("No valid fields to insert.")
          ELSE [ok |-> TRUE,
                query |-> <<"INSERT INTO", a.table, "(">>
                          \o JoinTok([i \in 1..Len(keys) |-> <<keys[i]>>], ",")
                          \o <<")", "VALUES", "(">>
                          \o JoinTok([i \in 1..Len(keys) |-> <<"?">>], ",")
                          \o <<")">>
                          \o OnDuplicateClause(a.onDuplicate, a.allowedColumns, keys),
                values |-> [i \in 1..Len(keys) |-> Prop(a.data, keys[i])]]

\* the row check of insertManyQuery: that row's allowed keys against keys
RowMatchesLenOnly(r, keys, allowedColumns) ==
  Len(SelectSeq(ObjectKeys(r), LAMBDA k : Includes(allowedColumns, k))) = Len(keys)

RowMatches(r, keys, allowedColumns) ==
  LET rowKeys == SelectSeq(ObjectKeys(r), LAMBDA k : Includes(allowedColumns, k))
  IN ~(Len(rowKeys) # Len(keys)
       \/ ~(\A i \in 1..Len(rowKeys) : Includes(keys, rowKeys[i])))

\* rows.forEach(r => keys.forEach(k => values.push(r[k])))
RowValues(rows, keys) ==
  Flatten([i \in 1..Len(rows) |-> [j \in 1..Len(keys) |-> Prop(rows[i], keys[j])]])

\* onDuplicate is not a parameter of insertManyQuery: a value passed for it
\* is ignored
insertManyQuery(a) ==
  IF ~Includes(a.allowedTables, a.table) THEN Throw("Table is not allowed.")
  ELSE IF Len(a.rows) = 0 THEN Throw("Rows must be a non-empty array.")
  ELSE LET keys == SelectSeq(ObjectKeys(a.rows[1]),
                          LAMBDA k : Includes(a.allowedColumns, k))
       IN IF Len(keys) = 0 THEN Throw("No valid columns to insert.")
          ELSE IF \E i \in 1..Len(a.rows) : ~RowMatches(a.rows[i], keys, a.allowedColumns)
               THEN Throw("All rows must have the same set of allowed columns.")
          ELSE LET placeholdersPerRow ==
                     <<"(">> \o JoinTok([i \in 1..Len(keys) |-> <<"?">>], ",") \o <<")">>
               IN [ok |-> TRUE,
                   query |-> <<"INSERT INTO", a.table, "(">>
                             \o JoinTok([i \in 1..Len(keys) |-> <<keys[i]>>], ",")
                             \o <<")", "VALUES">>
                             \o JoinTok([i \in 1..Len(a.rows) |-> placeholdersPerRow], ","),
                   values |-> RowValues(a.rows, keys)]

(***************************************************************************)
(* listDataQuery: the legacy SELECT + COUNT builder.  filters and having   *)
(* are objects column -> condition; a condition is {value, operator} or,   *)
(* as a shorthand, the bare value.                                         *)
(***************************************************************************)
\* a condition object {value, operator}; an absent property is Undefined
CondObj(value, operator) == [kind |-> "object", value |-> value, operator |-> operator]

\* cond.value / cond.operator of a cond with typeof cond === 'object'
CondProp(cond, name) ==
  IF cond.kind = "object" THEN (IF name = "value" THEN cond.value ELSE cond.operator)
  ELSE Undefined

\* s.toUpperCase() on the operator and join type spellings explored
ToUpperCase(s) ==
  CASE s = "like" -> "LIKE"
    [] s = "or like" -> "OR LIKE"
    [] s = "in" -> "IN"
    [] s = "between" -> "BETWEEN"
    [] s = "left" -> "LEFT"
    [] s = "right" -> "RIGHT"
    [] s = "inner" -> "INNER"
    [] OTHER -> s

\* col.includes(' AS ') && allowedColumns.includes(col.split(' AS ')[0])
AliasOfAllowed(col, allowedColumns) ==
  \E i \in 1..Len(allowedColumns) :
    \E alias \in {"a1", "b1", "x1"} : col = allowedColumns[i] \o " AS " \o alias

\* the filter of the select list (lines 24-31)
ValidColumns(columns, allowedColumns) ==
  SelectSeq(columns,
         LAMBDA col : col = "*" \/ Includes(allowedColumns, col)
                      \/ AliasOfAllowed(col, allowedColumns))

\* the FROM + JOIN loop (lines 35-42); acc is baseQuery or a thrown error
RECURSIVE LegacyJoins(_, _, _)
LegacyJoins(joins, allowedTables, acc) ==
  IF joins = <<>> THEN acc
  ELSE LET join == Head(joins)
           joinType == ToUpperCase(IF Truthy(join.type) THEN ToStr(join.type) ELSE "LEFT")
       IN IF ~Includes(allowedTables, join.table)
          THEN Throw("Join table is not allowed.")
          ELSE LegacyJoins(Tail(joins), allowedTables,
                 [ok |-> TRUE,
                  text |-> acc.text \o <<joinType, "JOIN", join.table, "ON", join.on>>])

QuestionMarks(n) == JoinTok([i \in 1..n |-> <<"?">>], ",")

\* one iteration of the WHERE loop (lines 48-84) on acc = <<baseQuery, values>>
LegacyWhereStep(key, cond, allowedColumns, acc) ==
  IF ~Includes(allowedColumns, key) THEN Throw("Filter column is not allowed.")
  ELSE IF cond.kind = "null" THEN Throw("TypeError")
  ELSE
  LET isObj == TypeOf(cond) = "object"
      value == IF isObj THEN CondProp(cond, "value") ELSE cond
      operator == IF isObj /\ Truthy(CondProp(cond, "operator"))
                  THEN ToStr(CondProp(cond, "operator")) ELSE "="
      op == ToUpperCase(operator)
      emit(text, vals) ==
        [ok |-> TRUE, text |-> acc.text \o text, values |-> acc.values \o vals]
  IN IF value.kind \in {"undefined", "null"} \/ value = Str("") THEN acc
     ELSE CASE op = "=" -> emit(<<"AND", key, "=", "?">>, <<value>>)
            [] op = "LIKE" ->
                 emit(<<"AND", key, "LIKE", "?">>, <<Str("%" \o ToStr(value) \o "%")>>)
            [] op = "OR LIKE" ->
                 emit(<<"OR", key, "LIKE", "?">>, <<Str("%" \o ToStr(value) \o "%")>>)
            [] op \in {">=", "<=", ">", "<"} ->
                 emit(<<"AND", key, operator, "?">>, <<value>>)
            [] op = "IN" ->
                 IF ~IsArray(value) \/ Len(value.items) = 0 THEN acc
                 ELSE emit(<<"AND", key, "IN", "(">>
                           \o QuestionMarks(Len(value.items)) \o <<")">>,
                           value.items)
            [] op = "BETWEEN" ->
                 IF ~IsArray(value) \/ Len(value.items) # 2
                 THEN Throw("BETWEEN requires [min,max]")
                 ELSE emit(<<"AND", key, "BETWEEN", "?", "AND", "?">>,
                           <<value.items[1], value.items[2]>>)
            [] OTHER -> Throw("Unsupported operator")

RECURSIVE LegacyWhere(_, _, _)
LegacyWhere(entries, allowedColumns, acc) ==
  IF entries = <<>> \/ ~acc.ok THEN acc
  ELSE LegacyWhere(Tail(entries), allowedColumns,
         LegacyWhereStep(Head(entries).key, Head(entries).val, allowedColumns, acc))

\* the GROUP BY block (lines 88-95)
LegacyGroup(groupBy, allowedColumns) ==
  IF Len(groupBy) = 0 THEN [ok |-> TRUE, text |-> <<>>]
  ELSE IF \E i \in 1..Len(groupBy) : ~Includes(allowedColumns, groupBy[i])
       THEN Throw("GroupBy column is not allowed.")
       ELSE [ok |-> TRUE,
             text |-> <<"GROUP BY">>
                      \o JoinTok([i \in 1..Len(groupBy) |-> <<groupBy[i]>>], ",")]

\* one iteration of the HAVING loop (lines 101-119) on acc = <<havingClause, values>>
LegacyHavingStep(key, cond, acc) ==
  IF cond.kind = "null" THEN Throw("TypeError")
  ELSE
  LET isObj == TypeOf(cond) = "object"
      value == IF isObj THEN CondProp(cond, "value") ELSE cond
      operator == IF isObj /\ Truthy(CondProp(cond, "operator"))
                  THEN ToStr(CondProp(cond, "operator")) ELSE "="
      op == ToUpperCase(operator)
      emit(text, vals) ==
        [ok |-> TRUE, text |-> acc.text \o text, values |-> acc.values \o vals]
  IN CASE op \in {"=", ">", "<", ">=", "<="} ->
            emit(<<"AND", key, operator, "?">>, <<value>>)
       [] op = "BETWEEN" ->
            IF ~IsArray(value) \/ Len(value.items) # 2
            THEN Throw("HAVING BETWEEN requires [min,max]")
            ELSE emit(<<"AND", key, "BETWEEN", "?", "AND", "?">>,
                      <<value.items[1], value.items[2]>>)
       [] OTHER -> Throw("Unsupported HAVING operator")

RECURSIVE LegacyHavingLoop(_, _)
LegacyHavingLoop(entries, acc) ==
  IF entries = <<>> \/ ~acc.ok THEN acc
  ELSE LegacyHavingLoop(Tail(entries),
         LegacyHavingStep(Head(entries).key, Head(entries).val, acc))

\* the HAVING block (lines 98-120); values continues the WHERE values
LegacyHaving(having, values) ==
  IF Len(ObjectKeys(having)) = 0 THEN [ok |-> TRUE, text |-> <<>>, values |-> values]
  ELSE LegacyHavingLoop(having,
         [ok |-> TRUE, text |-> <<"HAVING", "1=1">>, values |-> values])

\* the ORDER BY block (lines 123-126)
LegacyOrder(orderBy, orderDir, allowedColumns) ==
  IF orderBy # "" /\ Includes(allowedColumns, orderBy)
  THEN <<"ORDER BY", orderBy, IF orderDir # "" THEN orderDir ELSE "ASC">>
  ELSE <<>>

\* the count statement (lines 132-138)
LegacyCount(baseQuery, groupClause, havingClause) ==
  IF groupClause # <<>> \/ havingClause # <<>>
  THEN <<"SELECT", "COUNT(*)", "as", "total", "FROM", "(", "SELECT", "1">>
       \o baseQuery \o groupClause \o havingClause \o <<")", "AS", "sub">>
  ELSE <<"SELECT", "COUNT(1)", "as", "total">> \o baseQuery

\* a parameter default: `name = d` applies when the argument is undefined
Default(v, d) == IF v.kind = "undefined" THEN d ELSE v

DefaultLimit == 10
DefaultOffset == 0

listDataQuery(a) ==
  IF ~Includes(a.allowedTables, a.table) THEN Throw("Table is not allowed.")
  ELSE
  LET validColumns == ValidColumns(a.columns, a.allowedColumns) IN
  IF Len(validColumns) = 0 THEN Throw("No valid columns selected.")
  ELSE
  LET from == LegacyJoins(a.joins, a.allowedTables,
                          [ok |-> TRUE, text |-> <<"FROM", a.table>>]) IN
  IF ~from.ok THEN from
  ELSE
  LET where == LegacyWhere(a.filters, a.allowedColumns,
                 [ok |-> TRUE, text |-> from.text \o <<"WHERE", "1=1">>,
                  values |-> <<>>]) IN
  IF ~where.ok THEN where
  ELSE
  LET group == LegacyGroup(a.groupBy, a.allowedColumns) IN
  IF ~group.ok THEN group
  ELSE
  LET having == LegacyHaving(a.having, where.values) IN
  IF ~having.ok THEN having
  ELSE
  LET orderClause == LegacyOrder(a.orderBy, a.orderDir, a.allowedColumns)
      limit == Default(a.limit, Num(DefaultLimit))
      offset == Default(a.offset, Num(DefaultOffset))
  IN [ok |-> TRUE,
      dataQuery |-> <<"SELECT">>
                    \o JoinTok([i \in 1..Len(validColumns) |-> <<validColumns[i]>>], ",")
                    \o where.text \o group.text \o having.text \o orderClause
                    \o <<"LIMIT", "?", "OFFSET", "?">>,
      dataValues |-> having.values \o <<ToNumber(limit), ToNumber(offset)>>,
      countQuery |-> LegacyCount(where.text, group.text, having.text),
      countValues |-> having.values]

(***************************************************************************)
(* The decomposed builders: countQuery / buildCountQuerySafe / selectQuery *)
(* over the shared clause builders.  filters and having are lists of       *)
(* records {key, operator, value}; a property a record lacks reads as      *)
(* Undefined.                                                              *)
(***************************************************************************)
\* f[name] of a filter record
Get(f, name) == IF name \in DOMAIN f THEN f[name] ELSE Undefined

\* allowedColumns.includes(v) for a JavaScript value v (strict equality)
IncludesValue(arr, v) == v.kind = "string" /\ Includes(arr, v.s)

sanitizeColumn(column, allowedColumns) ==
  IF ~IncludesValue(allowedColumns, column) THEN Throw("Column not allowed")
  ELSE [ok |-> TRUE, text |-> <<ToStr(column)>>]

\* the values one filter contributes (lines 390-396)
FilterValues(f) ==
  LET operator == Get(f, "operator")
      value == Get(f, "value")
  IN IF operator = Str("BETWEEN") /\ IsArray(value)
     THEN <<IF Len(value.items) >= 1 THEN value.items[1] ELSE Undefined,
            IF Len(value.items) >= 2 THEN value.items[2] ELSE Undefined>>
     ELSE IF operator = Str("IN") /\ IsArray(value) THEN value.items
     ELSE <<value>>

extractFilterValues(filters) ==
  Flatten([i \in 1..Len(filters) |-> FilterValues(filters[i])])

\* the clause one filter maps to (lines 404-409), or a thrown error
WhereClauseOf(f, allowedColumns) ==
  LET key == Get(f, "key")
      operator == Get(f, "operator")
      value == Get(f, "value")
  IN IF ~IncludesValue(allowedColumns, key) THEN Throw("Column not allowed in WHERE")
     ELSE IF operator = Str("BETWEEN")
          THEN [ok |-> TRUE, text |-> <<ToStr(key), "BETWEEN", "?", "AND", "?">>]
     ELSE IF operator = Str("IN")
          THEN IF ~IsArray(value) THEN Throw("TypeError")
               ELSE [ok |-> TRUE,
                     text |-> <<ToStr(key), "IN", "(">>
                              \o QuestionMarks(Len(value.items)) \o <<")">>]
     ELSE IF operator = Str("LIKE")
          THEN [ok |-> TRUE, text |-> <<ToStr(key), "LIKE", "?">>]
     ELSE IF operator = Str("OR LIKE")
          THEN [ok |-> TRUE, text |-> <<ToStr(key), "LIKE", "?">>]
     ELSE [ok |-> TRUE, text |-> <<ToStr(key), ToStr(operator), "?">>]

\* the first error of a sequence of clause results, else their texts joined
JoinClauses(head, clauses, sep) ==
  IF \E i \in 1..Len(clauses) : ~clauses[i].ok
  THEN clauses[CHOOSE i \in 1..Len(clauses) :
                 ~clauses[i].ok /\ \A j \in 1..(i - 1) : clauses[j].ok]
  ELSE [ok |-> TRUE,
        text |-> head \o JoinTok([i \in 1..Len(clauses) |-> clauses[i].text], sep)]

buildWhereClause(filters, allowedColumns) ==
  IF Len(filters) = 0 THEN [ok |-> TRUE, text |-> <<>>]
  ELSE JoinClauses(<<"WHERE">>,
         [i \in 1..Len(filters) |-> WhereClauseOf(filters[i], allowedColumns)], "AND")

\* the clause one join maps to (lines 416-417)
JoinClauseOf(join, allowedTables) ==
  IF ~Includes(allowedTables, join.table) THEN Throw("Join table not allowed")
  ELSE [ok |-> TRUE,
        text |-> <<IF Truthy(join.type) THEN ToStr(join.type) ELSE "INNER",
                   "JOIN", join.table, "ON", join.on>>]

buildJoinClauseUnchecked(joins, allowedTables) ==
  [ok |-> TRUE,
   text |-> Flatten([i \in 1..Len(joins) |->
                       <<IF Truthy(joins[i].type) THEN ToStr(joins[i].type) ELSE "INNER",
                         "JOIN", joins[i].table, "ON", joins[i].on>>])]

buildJoinClause(joins, allowedTables) ==
  IF \E i \in 1..Len(joins) : ~JoinClauseOf(joins[i], allowedTables).ok
  THEN Throw("Join table not allowed")
  ELSE [ok |-> TRUE,
        text |-> Flatten([i \in 1..Len(joins) |->
                            JoinClauseOf(joins[i], allowedTables).text])]

\* the clause one having record maps to (lines 424-427)
HavingClauseOf(h, allowedColumns) ==
  LET key == Get(h, "key")
      operator == Get(h, "operator")
      value == Get(h, "value")
  IN IF ~IncludesValue(allowedColumns, key) THEN Throw("Column not allowed in HAVING")
     ELSE IF operator = Str("BETWEEN")
          THEN [ok |-> TRUE, text |-> <<ToStr(key), "BETWEEN", "?", "AND", "?">>]
     ELSE IF operator = Str("IN")
          THEN IF ~IsArray(value) THEN Throw("TypeError")
               ELSE [ok |-> TRUE,
                     text |-> <<ToStr(key), "IN", "(">>
                              \o QuestionMarks(Len(value.items)) \o <<")">>]
     ELSE [ok |-> TRUE, text |-> <<ToStr(key), ToStr(operator), "?">>]

buildHavingClause(having, allowedColumns) ==
  IF Len(having) = 0 THEN [ok |-> TRUE, text |-> <<>>]
  ELSE JoinClauses(<<"HAVING">>,
         [i \in 1..Len(having) |-> HavingClauseOf(having[i], allowedColumns)], "AND")

\* groupBy ? `GROUP BY ${sanitizeColumn(groupBy, allowedColumns)}` : ''
GroupClause(groupBy, allowedColumns) ==
  IF ~Truthy(groupBy) THEN [ok |-> TRUE, text |-> <<>>]
  ELSE LET c == sanitizeColumn(groupBy, allowedColumns)
       IN IF ~c.ok THEN c ELSE [ok |-> TRUE, text |-> <<"GROUP BY">> \o c.text]

\* the four clauses in the order the builders evaluate them: WHERE, JOIN,
\* GROUP BY, HAVING; the first one that throws ends the call
Clauses(a) ==
  LET whereClause == buildWhereClause(a.filters, a.allowedColumns)
      joinClause == buildJoinClause(a.joins, a.allowedTables)
      groupClause == GroupClause(a.groupBy, a.allowedColumns)
      havingClause == buildHavingClause(a.having, a.allowedColumns)
  IN IF ~whereClause.ok THEN whereClause
     ELSE IF ~joinClause.ok THEN joinClause
     ELSE IF ~groupClause.ok THEN groupClause
     ELSE IF ~havingClause.ok THEN havingClause
     ELSE [ok |-> TRUE, where |-> whereClause.text, join |-> joinClause.text,
           group |-> groupClause.text, having |-> havingClause.text]

countQuery(a) ==
  IF ~Includes(a.allowedTables, a.table) THEN Throw("Table not allowed")
  ELSE LET c == Clauses(a) IN
       IF ~c.ok THEN c
       ELSE LET fullFrom == <<"FROM", a.table>> \o c.join \o c.where \o c.group \o c.having
            IN [ok |-> TRUE,
                query |-> IF Truthy(a.groupBy)
                          THEN <<"SELECT", "COUNT(*)", "as", "total", "FROM", "(",
                                 "SELECT", "1">> \o fullFrom \o <<")", "AS", "temp">>
                          ELSE <<"SELECT", "COUNT(1)", "as", "total">> \o fullFrom,
                values |-> extractFilterValues(a.filters)
                           \o extractFilterValues(a.having)]

\* the same code as countQuery under its other name (lines 432-459); the
\* one listDatatableQuery calls
buildCountQuerySafe(a) == countQuery(a)

\* v.length of a value: an array's element count, Undefined of an object
LengthOf(v) == IF IsArray(v) THEN Num(Len(v.items)) ELSE Undefined

\* the ORDER BY clause of selectQuery (lines 485-487)
OrderClause(orderBy, allowedColumns) ==
  IF ~Truthy(LengthOf(orderBy)) THEN [ok |-> TRUE, text |-> <<>>]
  ELSE JoinClauses(<<"ORDER BY">>,
         [i \in 1..Len(orderBy.items) |->
            LET c == sanitizeColumn(orderBy.items[i].column, allowedColumns)
            IN IF ~c.ok THEN c
               ELSE [ok |-> TRUE, text |-> c.text \o <<orderBy.items[i].dir>>]], ",")

\* limit ? `LIMIT ${offset || 0}, ${limit}` : ''
LimitClause(limit, offset) ==
  IF ~Truthy(limit) THEN <<>>
  ELSE <<"LIMIT", IF Truthy(offset) THEN ToStr(offset) ELSE "0", ",", ToStr(limit)>>

\* the select list of selectQuery (lines 477-479)
ColList(columns, allowedColumns) ==
  IF Includes(columns, "*") THEN [ok |-> TRUE, text |-> <<"*">>]
  ELSE JoinClauses(<<>>,
         [i \in 1..Len(columns) |-> sanitizeColumn(Str(columns[i]), allowedColumns)], ",")

selectQuery(a) ==
  IF ~Includes(a.allowedTables, a.table) THEN Throw("Table not allowed")
  ELSE LET colList == ColList(a.columns, a.allowedColumns) IN
       IF ~colList.ok THEN colList
       ELSE LET c == Clauses(a) IN
       IF ~c.ok THEN c
       ELSE LET orderClause == OrderClause(a.orderBy, a.allowedColumns) IN
       IF ~orderClause.ok THEN orderClause
       ELSE [ok |-> TRUE,
             query |-> <<"SELECT">> \o colList.text \o <<"FROM", a.table>>
                       \o c.join \o c.where \o c.group \o c.having
                       \o orderClause.text
                       \o LimitClause(Default(a.limit, Num(0)), Default(a.offset, Num(0))),
             values |-> extractFilterValues(a.filters)
                        \o extractFilterValues(a.having)]

(***************************************************************************)
(* listDatatableQuery: three statement executions against the data-access  *)
(* collaborator db, each awaited before the function goes on.              *)
(***************************************************************************)
\* the global-search filters (lines 163-172)
FilterClause(search, allowedColumns) ==
  LET searchFilters ==
        IF Truthy(search)
        THEN [i \in 1..Len(allowedColumns) |->
                [key |-> Str(allowedColumns[i]), operator |-> Str("LIKE"),
                 value |-> Str("%" \o ToStr(search) \o "%")]]
        ELSE <<>>
  IN IF Len(searchFilters) # 0 THEN <<[or |-> searchFilters]>> ELSE <<>>

\* orders != '' ? { column: colOrder, dir: orders } : []   (line 175)
OrderOf(orders, colOrder) ==
  IF orders # "" THEN [kind |-> "object", column |-> Str(colOrder), dir |-> orders]
  ELSE Arr(<<>>)

\* filterClause.concat(extraWhere || [])
DtFilters(a) ==
  FilterClause(a.search, a.allowedColumns)
  \o (IF a.extraWhere.kind = "array" THEN a.extraWhere.items ELSE <<>>)

\* the arguments of the first buildCountQuerySafe call (lines 178-183)
DtTotalArgs(a) ==
  [table |-> a.table, allowedTables |-> a.allowedTables,
   allowedColumns |-> a.allowedColumns, joins |-> a.joins,
   filters |-> <<>>, groupBy |-> Null, having |-> <<>>]

\* the arguments of the second buildCountQuerySafe call (lines 188-195)
DtFilteredArgs(a) ==
  [table |-> a.table, allowedTables |-> a.allowedTables,
   allowedColumns |-> a.allowedColumns, joins |-> a.joins,
   filters |-> DtFilters(a), groupBy |-> a.groupBy, having |-> <<>>]

\* the arguments of the selectQuery call (lines 200-210)
DtDataArgs(a) ==
  [table |-> a.table, allowedTables |-> a.allowedTables,
   allowedColumns |-> a.allowedColumns, columns |-> <<"*">>, joins |-> a.joins,
   filters |-> DtFilters(a), groupBy |-> a.groupBy, having |-> <<>>,
   orderBy |-> OrderOf(a.orders, a.colOrder), limit |-> a.length, offset |-> a.start]

\* result[0]?.total || 0 of the rows a count execution resolved with
TotalOf(rows) == IF Len(rows) = 0 THEN 0 ELSE rows[1].total

(***************************************************************************)
(* Explored inputs.                                                        *)
(***************************************************************************)
TableNames == {"t", "u"}
AllowedTables == <<"t", "j", "k">>
ColumnNames == {"a", "b", "x"}
AllowedColumns == <<"a", "b">>

ColIndex(k) == CASE k = "a" -> 1 [] k = "b" -> 2 [] OTHER -> 3

\* sequences of pairwise distinct column names, at most n long
KeySeqs(n) ==
  {s \in UNION {[1..k -> ColumnNames] : k \in 0..n} :
     \A i, j \in 1..Len(s) : i # j => s[i] # s[j]}

\* the object with the given keys, the value of key k being base + ColIndex(k)
Obj(keys, base) ==
  [i \in 1..Len(keys) |-> [key |-> keys[i], val |-> Num(base + ColIndex(keys[i]))]]

OnDupLists == UNION {[1..k -> ColumnNames] : k \in 0..MaxOnDup}

RowLists ==
  {[i \in 1..Len(ks) |-> Obj(ks[i], 10 * i)] :
     ks \in UNION {[1..k -> KeySeqs(MaxEntries)] : k \in 0..MaxRows}}

DeleteInputs ==
  {[table |-> t, allowedTables |-> AllowedTables, allowedColumns |-> AllowedColumns,
    where |-> Obj(w, 20)] : t \in TableNames, w \in KeySeqs(MaxEntries)}

UpdateInputs ==
  {[table |-> t, allowedTables |-> AllowedTables, allowedColumns |-> AllowedColumns,
    data |-> Obj(d, 10), where |-> Obj(w, 20)] :
     t \in TableNames, d \in KeySeqs(MaxEntries), w \in KeySeqs(MaxEntries)}

InsertOneInputs ==
  {[table |-> t, allowedTables |-> AllowedTables, allowedColumns |-> AllowedColumns,
    data |-> Obj(d, 10), onDuplicate |-> od] :
     t \in TableNames, d \in KeySeqs(MaxEntries), od \in OnDupLists}

InsertManyInputs ==
  {[table |-> t, allowedTables |-> AllowedTables, allowedColumns |-> AllowedColumns,
    rows |-> rows, onDuplicate |-> od] :
     t \in TableNames, rows \in RowLists, od \in {<<>>, <<"a">>, <<"x", "b">>}}

\* condition values: scalars, the "no value" scalars, arrays of 0..MaxList
CondValues ==
  {Num(5), Str(""), Null, Undefined}
  \cup {Arr([i \in 1..n |-> Num(i)]) : n \in 0..MaxList}

CondOperators ==
  {Str(o) : o \in {"=", "LIKE", "OR LIKE", ">=", "IN", "BETWEEN", "<>", "like"}}
  \cup {Undefined}

Conds(keys) ==
  {[key |-> k, operator |-> o, value |-> v] :
     k \in keys, o \in CondOperators, v \in CondValues}

LeadConds ==
  {[key |-> "b", operator |-> Str("="), value |-> Num(7)],
   [key |-> "b", operator |-> Str("OR LIKE"), value |-> Str("s")],
   [key |-> "b", operator |-> Str("="), value |-> Undefined]}

\* WHERE condition lists: none, one condition, a lead condition and another
CondLists ==
  {<<>>} \cup {<<c>> : c \in Conds({"a", "x"})}
  \cup {<<l, c>> : l \in LeadConds, c \in Conds({"a"})}

FewCondLists == {<<>>, <<[key |-> "a", operator |-> Str("="), value |-> Num(5)]>>}

HavingLists ==
  {<<>>}
  \cup {<<[key |-> k, operator |-> Str(o), value |-> v]>> :
          k \in {"a", "x"}, o \in {">", "BETWEEN", "IN"},
          v \in {Num(5), Arr(<<Num(1), Num(2)>>)}}

\* the condition list as the legacy builder's object column -> {value, operator}
CondsToObject(conds) ==
  [i \in 1..Len(conds) |->
     [key |-> conds[i].key, val |-> CondObj(conds[i].value, conds[i].operator)]]

\* the condition list as the decomposed builders' list of records
CondsToList(conds) ==
  [i \in 1..Len(conds) |->
     [key |-> Str(conds[i].key), operator |-> conds[i].operator,
      value |-> conds[i].value]]

JoinJ == [table |-> "j", on |-> "t.id = j.t_id", type |-> Undefined]
JoinK == [table |-> "k", on |-> "t.id = k.t_id", type |-> Str("right")]
JoinU == [table |-> "u", on |-> "t.id = u.t_id", type |-> Str("INNER")]

\* base table and joins
Froms ==
  {[table |-> "t", joins |-> <<>>], [table |-> "t", joins |-> <<JoinJ>>],
   [table |-> "t", joins |-> <<JoinK, JoinJ>>], [table |-> "t", joins |-> <<JoinJ, JoinU>>],
   [table |-> "u", joins |-> <<>>], [table |-> "u", joins |-> <<JoinU>>]}

ColumnLists == {<<"*">>, <<"a", "b AS b1">>, <<"x">>}

Pages ==
  {[limit |-> Undefined, offset |-> Undefined], [limit |-> Num(5), offset |-> Num(10)],
   [limit |-> Str("7"), offset |-> Str("0")]}

Orders ==
  {[orderBy |-> "", orderDir |-> ""], [orderBy |-> "a", orderDir |-> "DESC"],
   [orderBy |-> "x", orderDir |-> "ASC"]}

\* the query descriptions explored: the WHERE conditions vary; or grouping,
\* having, paging and ordering vary; or base table, joins and select list vary
Queries ==
  {[table |-> "t", joins |-> <<>>, columns |-> <<"*">>, conds |-> c, groupBy |-> <<>>,
    having |-> <<>>, page |-> CHOOSE p \in Pages : p.limit = Num(5),
    order |-> CHOOSE o \in Orders : o.orderBy = ""] : c \in CondLists}
  \cup
  {[table |-> "t", joins |-> <<>>, columns |-> <<"*">>, conds |-> c, groupBy |-> g,
    having |-> h, page |-> p, order |-> o] :
     c \in FewCondLists, g \in {<<>>, <<"a">>, <<"x">>}, h \in HavingLists,
     p \in Pages, o \in Orders}
  \cup
  {[table |-> f.table, joins |-> f.joins, columns |-> cols, conds |-> c, groupBy |-> g,
    having |-> <<>>, page |-> CHOOSE p \in Pages : p.limit = Num(5),
    order |-> CHOOSE o \in Orders : o.orderBy = ""] :
     f \in Froms, cols \in ColumnLists, c \in FewCondLists, g \in {<<>>, <<"a">>}}

\* the legacy builder's arguments for a query description
LegacyArgs(q) ==
  [table |-> q.table, allowedTables |-> AllowedTables, allowedColumns |-> AllowedColumns,
   columns |-> q.columns, joins |-> q.joins, filters |-> CondsToObject(q.conds),
   orderBy |-> q.order.orderBy, orderDir |-> q.order.orderDir,
   limit |-> q.page.limit, offset |-> q.page.offset,
   groupBy |-> q.groupBy, having |-> CondsToObject(q.having)]

\* the decomposed builders' arguments for a query description
DecomposedArgs(q) ==
  [table |-> q.table, allowedTables |-> AllowedTables, allowedColumns |-> AllowedColumns,
   columns |-> q.columns, joins |-> q.joins, filters |-> CondsToList(q.conds),
   groupBy |-> IF q.groupBy = <<>> THEN Null ELSE Str(q.groupBy[1]),
   having |-> CondsToList(q.having),
   orderBy |-> IF q.order.orderBy = "" THEN Arr(<<>>)
               ELSE Arr(<<[column |-> Str(q.order.orderBy), dir |-> q.order.orderDir]>>),
   limit |-> q.page.limit, offset |-> q.page.offset]

\* legacy calls: the descriptions, a two-column grouping, and conditions
\* given as bare values
ListDataInputs ==
  {LegacyArgs(q) : q \in Queries}
  \cup {[LegacyArgs(q) EXCEPT !.groupBy = <<"a", "b">>] :
          q \in {r \in Queries : r.groupBy = <<"a">>}}
  \cup {[LegacyArgs(q) EXCEPT !.filters = <<[key |-> k, val |-> v]>>] :
          q \in {r \in Queries : r.conds = <<>> /\ r.having = <<>> /\ r.table = "t"
                                  /\ r.joins = <<>> /\ r.groupBy = <<>>
                                  /\ r.columns = <<"*">> /\ r.order.orderBy = ""
                                  /\ r.page.limit = Num(5)},
          k \in {"a", "x"}, v \in CondValues}

CountInputs == {DecomposedArgs(q) : q \in Queries}

SelectInputs == {DecomposedArgs(q) : q \in Queries}

DatatableInputs ==
  {[table |-> f.table, allowedTables |-> AllowedTables,
    allowedColumns |-> AllowedColumns, joins |-> f.joins, groupBy |-> g,
    extraWhere |-> ew, draw |-> 1, start |-> pg.offset, length |-> pg.limit,
    search |-> sr, orders |-> od, colOrder |-> co] :
     f \in {x \in Froms : Len(x.joins) <= 1},
     g \in {Null, Str("a")},
     ew \in {Null} \cup {Arr(CondsToList(c)) : c \in FewCondLists},
     pg \in {p \in Pages : p.limit.kind = "number"} ,
     sr \in {Str(""), Str("s")},
     od \in {"", "DESC"},
     co \in {"a", "x"}}

\* what the collaborator can resolve a count execution with
CountRows == {<<>>} \cup {<<[total |-> n]>> : n \in 0..MaxTotal}

\* what the collaborator can resolve the data execution with
DataRows == {<<>>, <<"row1">>, <<"row1", "row2">>}

(***************************************************************************)
(* The state machine: a call is drawn, the builder runs, its result is     *)
(* returned (or its error thrown).                                         *)
(***************************************************************************)
Init ==
  /\ \/ fn = "deleteQuery" /\ args \in DeleteInputs
     \/ fn = "updateQuery" /\ args \in UpdateInputs
     \/ fn = "insertOneQuery" /\ args \in InsertOneInputs
     \/ fn = "insertManyQuery" /\ args \in InsertManyInputs
     \/ fn = "listDataQuery" /\ args \in ListDataInputs
     \/ fn = "countQuery" /\ args \in CountInputs
     \/ fn = "selectQuery" /\ args \in SelectInputs
     \/ fn = "listDatatableQuery" /\ args \in DatatableInputs
  /\ ret = Pending
  /\ pc = "call"
  /\ executed = <<>>
  /\ locals = <<>>

Return(r) ==
  /\ ret' = r
  /\ pc' = "done"
  /\ UNCHANGED <<fn, args, executed, locals>>

UpdateQuery == pc = "call" /\ fn = "updateQuery" /\ Return(updateQuery(args))

DeleteQuery == pc = "call" /\ fn = "deleteQuery" /\ Return(deleteQuery(args))

InsertOneQuery == pc = "call" /\ fn = "insertOneQuery" /\ Return(insertOneQuery(args))

InsertManyQuery == pc = "call" /\ fn = "insertManyQuery" /\ Return(insertManyQuery(args))

ListDataQuery == pc = "call" /\ fn = "listDataQuery" /\ Return(listDataQuery(args))

CountQuery == pc = "call" /\ fn = "countQuery" /\ Return(countQuery(args))

SelectQuery == pc = "call" /\ fn = "selectQuery" /\ Return(selectQuery(args))

\* the function throws: the promise it returned is rejected
Reject(err) ==
  /\ ret' = err
  /\ pc' = "done"
  /\ UNCHANGED <<fn, args, executed, locals>>

\* db.query(stmt.query, stmt.values) is issued and awaited at `next`
Execute(stmt, next, loc) ==
  /\ executed' = Append(executed, [query |-> stmt.query, values |-> stmt.values])
  /\ pc' = next
  /\ locals' = loc
  /\ UNCHANGED <<fn, args, ret>>

\* the call: lines 163-184, up to the first await
DatatableCall ==
  /\ pc = "call" /\ fn = "listDatatableQuery"
  /\ LET totalQuery == buildCountQuerySafe(DtTotalArgs(args))
     IN IF ~totalQuery.ok THEN Reject(totalQuery)
        ELSE Execute(totalQuery, "awaitTotal", locals)

\* the first execution resolves: lines 184-196, up to the second await
DatatableTotal ==
  /\ pc = "awaitTotal"
  /\ \E totalResult \in CountRows :
       LET recordsTotal == TotalOf(totalResult)
           filteredQuery == buildCountQuerySafe(DtFilteredArgs(args))
       IN IF ~filteredQuery.ok THEN Reject(filteredQuery)
          ELSE Execute(filteredQuery, "awaitFiltered", <<recordsTotal>>)

\* the second execution resolves: lines 196-211, up to the third await
DatatableFiltered ==
  /\ pc = "awaitFiltered"
  /\ \E filteredResult \in CountRows :
       LET recordsFiltered == TotalOf(filteredResult)
           dataQuery == selectQuery(DtDataArgs(args))
       IN IF ~dataQuery.ok THEN Reject(dataQuery)
          ELSE Execute(dataQuery, "awaitData", Append(locals, recordsFiltered))

\* the third execution resolves: lines 211-218
DatatableData ==
  /\ pc = "awaitData"
  /\ \E rows \in DataRows :
       Return([ok |-> TRUE, draw |-> args.draw, recordsTotal |-> locals[1],
               recordsFiltered |-> locals[2], data |-> rows])

\* an awaited execution fails: the rejection propagates out of the function
DatatableDbError ==
  /\ pc \in {"awaitTotal", "awaitFiltered", "awaitData"}
  /\ Reject(Throw("db error"))

Next ==
  \/ UpdateQuery
  \/ DeleteQuery
  \/ InsertOneQuery
  \/ InsertManyQuery
  \/ ListDataQuery
  \/ CountQuery
  \/ SelectQuery
  \/ DatatableCall
  \/ DatatableTotal
  \/ DatatableFiltered
  \/ DatatableData
  \/ DatatableDbError

Spec == Init /\ [][Next]_vars

Returned(f) == pc = "done" /\ fn = f

(***************************************************************************)
(* What the claims read off a state.                                       *)
(***************************************************************************)
Builders ==
  {"listDataQuery", "countQuery", "selectQuery", "insertOneQuery", "insertManyQuery",
   "updateQuery", "deleteQuery"}

\* the statements a finished builder call returned, as <<text, values>> pairs
Statements ==
  IF pc # "done" \/ fn \notin Builders \/ ~ret.ok THEN {}
  ELSE IF fn = "listDataQuery"
       THEN {[query |-> ret.dataQuery, values |-> ret.dataValues],
             [query |-> ret.countQuery, values |-> ret.countValues]}
       ELSE {[query |-> ret.query, values |-> ret.values]}

\* the call failed: a builder threw, or the datatable promise was rejected
Failed == pc = "done" /\ ~ret.ok

HasSub(seq, sub) ==
  \E i \in 0..(Len(seq) - Len(sub)) : SubSeq(seq, i + 1, i + Len(sub)) = sub

EndsWith(seq, sub) ==
  Len(seq) >= Len(sub) /\ SubSeq(seq, Len(seq) - Len(sub) + 1, Len(seq)) = sub

\* the WHERE conditions of a SELECT/COUNT call as records
\* [key, operator, value], whichever shape the builder takes them in
WhereConds ==
  IF fn = "listDataQuery"
  THEN [i \in 1..Len(args.filters) |->
          LET cond == args.filters[i].val
          IN [key |-> args.filters[i].key,
              operator |-> IF cond.kind = "object" /\ Truthy(cond.operator)
                           THEN cond.operator ELSE Str("="),
              value |-> IF cond.kind = "object" THEN cond.value
                        ELSE IF cond.kind = "array" THEN Undefined ELSE cond]]
  ELSE [i \in 1..Len(args.filters) |->
          [key |-> args.filters[i].key.s, operator |-> args.filters[i].operator,
           value |-> args.filters[i].value]]

HavingConds ==
  IF fn = "listDataQuery"
  THEN [i \in 1..Len(args.having) |->
          [key |-> args.having[i].key, operator |-> args.having[i].val.operator,
           value |-> args.having[i].val.value]]
  ELSE [i \in 1..Len(args.having) |->
          [key |-> args.having[i].key.s, operator |-> args.having[i].operator,
           value |-> args.having[i].value]]

GroupColumns ==
  IF fn = "listDataQuery" THEN args.groupBy
  ELSE IF args.groupBy.kind = "string" THEN <<args.groupBy.s>> ELSE <<>>

SelectBuilders == {"listDataQuery", "countQuery", "selectQuery"}

(***************************************************************************)
(* C1.  Every statement a builder returns has as many "?" placeholders as  *)
(* it has bound values.                                                    *)
(***************************************************************************)
C1_PlaceholdersMatchValues ==
  \A s \in Statements : Placeholders(s.query) = Len(s.values)

(***************************************************************************)
(* C2.  A call whose base table or one of whose join tables is not in      *)
(* allowedTables fails, returns no statement and executes none; so the     *)
(* table named after FROM, JOIN, INSERT INTO, UPDATE or DELETE FROM in any *)
(* returned or executed statement is in allowedTables.                     *)
(***************************************************************************)
TableNotAllowed ==
  \/ ~Includes(args.allowedTables, args.table)
  \/ /\ "joins" \in DOMAIN args
     /\ \E i \in 1..Len(args.joins) : ~Includes(args.allowedTables, args.joins[i].table)

TablesOf(query) ==
  {query[i + 1] : i \in {j \in 1..(Len(query) - 1) :
                           /\ query[j] \in {"FROM", "JOIN", "INSERT INTO", "UPDATE",
                                            "DELETE FROM"}
                           /\ query[j + 1] # "("}}

C2_TablesWhitelisted ==
  /\ TableNotAllowed => executed = <<>> /\ (pc = "done" => ~ret.ok)
  /\ \A s \in Statements \cup {executed[i] : i \in 1..Len(executed)} :
       \A t \in TablesOf(s.query) : Includes(args.allowedTables, t)

C2_Witness ==
  /\ Failed /\ fn = "countQuery"
  /\ Includes(args.allowedTables, args.table)
  /\ \E i \in 1..Len(args.joins) : ~Includes(args.allowedTables, args.joins[i].table)

(***************************************************************************)
(* C3.  A column outside allowedColumns given as a WHERE filter column, a  *)
(* HAVING filter column, a GROUP BY column, an UPDATE SET key or an        *)
(* UPDATE/DELETE WHERE key makes the call fail.                            *)
(***************************************************************************)
ColumnNotAllowed ==
  LET bad(k) == ~Includes(args.allowedColumns, k)
  IN CASE fn \in SelectBuilders ->
            \/ \E i \in 1..Len(WhereConds) : bad(WhereConds[i].key)
            \/ \E i \in 1..Len(HavingConds) : bad(HavingConds[i].key)
            \/ \E i \in 1..Len(GroupColumns) : bad(GroupColumns[i])
       [] fn = "updateQuery" ->
            \/ \E i \in 1..Len(args.data) : bad(args.data[i].key)
            \/ \E i \in 1..Len(args.where) : bad(args.where[i].key)
       [] fn = "deleteQuery" -> \E i \in 1..Len(args.where) : bad(args.where[i].key)
       [] OTHER -> FALSE

C3_DisallowedColumnFails ==
  pc = "done" /\ ColumnNotAllowed => ~ret.ok

(***************************************************************************)
(* C4.  deleteQuery on an allowed table fails on an empty where, and on a  *)
(* where of whitelisted keys returns DELETE FROM t WHERE 1=1 followed by   *)
(* one AND key = ? per entry in order, the values being the where values   *)
(* in that order; it never returns a DELETE without a condition.           *)
(***************************************************************************)
C4_DeleteNeedsWhere ==
  Returned("deleteQuery") =>
    /\ ret.ok => Len(args.where) > 0 /\ HasSub(ret.query, <<"AND", args.where[1].key, "=", "?">>)
    /\ Includes(args.allowedTables, args.table) /\ Len(args.where) = 0 =>
         ret = Throw("DELETE must have a WHERE condition to prevent full-table deletion.")
    /\ /\ Includes(args.allowedTables, args.table)
       /\ Len(args.where) > 0
       /\ \A i \in 1..Len(args.where) : Includes(args.allowedColumns, args.where[i].key)
       => /\ ret.ok
          /\ ret.query = <<"DELETE FROM", args.table, "WHERE", "1=1">>
                         \o Flatten([i \in 1..Len(args.where) |->
                                       <<"AND", args.where[i].key, "=", "?">>])
          /\ ret.values = [i \in 1..Len(args.where) |-> args.where[i].val]

C4_Witness ==
  Returned("deleteQuery") /\ ret.ok /\ Len(args.where) = MaxEntries

(***************************************************************************)
(* C5.  A count statement is the flat SELECT COUNT(1) ... FROM form        *)
(* exactly when the call has neither GROUP BY nor HAVING, and the wrapped  *)
(* SELECT COUNT( * ) FROM (SELECT 1 ...) AS alias form when it has either. *)
(***************************************************************************)
CountStatement == IF fn = "listDataQuery" THEN ret.countQuery ELSE ret.query

FlatCount(q) ==
  /\ SubSeq(q, 1, 2) = <<"SELECT", "COUNT(1)">>
  /\ \A i \in 1..Len(q) : q[i] \notin {"GROUP BY", "HAVING"}

WrappedCount(q) ==
  /\ SubSeq(q, 1, 2) = <<"SELECT", "COUNT(*)">>
  /\ HasSub(q, <<"FROM", "(", "SELECT", "1", "FROM">>)
  /\ Len(q) >= 3 /\ SubSeq(q, Len(q) - 2, Len(q) - 1) = <<")", "AS">>

C5_CountForm ==
  pc = "done" /\ fn \in {"listDataQuery", "countQuery"} /\ ret.ok =>
    IF Len(GroupColumns) = 0 /\ Len(HavingConds) = 0
    THEN FlatCount(CountStatement)
    ELSE WrappedCount(CountStatement)

(***************************************************************************)
(* C6.  A paged data statement (listDataQuery always, selectQuery when a   *)
(* limit is given) ends with LIMIT ? OFFSET ?, and its values are the      *)
(* count statement's values for the same input followed by Number(limit)   *)
(* and Number(offset).                                                     *)
(***************************************************************************)
C6_PagingIsBound ==
  /\ Returned("listDataQuery") /\ ret.ok =>
       /\ EndsWith(ret.dataQuery, <<"LIMIT", "?", "OFFSET", "?">>)
       /\ ret.dataValues =
            ret.countValues
            \o <<ToNumber(Default(args.limit, Num(DefaultLimit))),
                 ToNumber(Default(args.offset, Num(DefaultOffset)))>>
  /\ Returned("selectQuery") /\ ret.ok /\ args.limit # Undefined =>
       /\ EndsWith(ret.query, <<"LIMIT", "?", "OFFSET", "?">>)
       /\ ret.values =
            countQuery(args).values \o <<ToNumber(args.limit), ToNumber(args.offset)>>

(***************************************************************************)
(* C7.  In the WHERE of a SELECT/COUNT statement a condition with no value *)
(* (undefined, "" or null under an operator other than IN/BETWEEN) or with *)
(* an empty IN list leaves no fragment and no value; the others appear in  *)
(* input order; IN [v1..vn] gives key IN (?, ..., ?) and the values        *)
(* v1..vn.                                                                 *)
(***************************************************************************)
IsRange(v) == IsArray(v) /\ Len(v.items) = 2

OperatorOf(c) == IF c.operator.kind = "string" THEN ToUpperCase(c.operator.s) ELSE "="

NoValue(c) ==
  \/ /\ c.value \in {Undefined, Str(""), Null}
     /\ OperatorOf(c) \notin {"IN", "BETWEEN"}
  \/ OperatorOf(c) = "IN" /\ c.value = Arr(<<>>)

\* the column names among the tokens of a text, in order
ColumnTokens(text) == SelectSeq(text, LAMBDA tok : tok \in ColumnNames)

\* the call has WHERE conditions only: no grouping, having or ordering
WhereOnly ==
  /\ fn \in SelectBuilders
  /\ Len(GroupColumns) = 0 /\ Len(args.having) = 0
  /\ args.columns = <<"*">>
  /\ IF fn = "listDataQuery" THEN args.orderBy = "" ELSE args.orderBy = Arr(<<>>)

\* the value has the shape the operator takes: a list for IN, a range for
\* BETWEEN
Shaped(c) ==
  CASE OperatorOf(c) = "IN" -> IsArray(c.value)
    [] OperatorOf(c) = "BETWEEN" -> IsRange(c.value)
    [] OTHER -> TRUE

C7_EmptyConditionsSkipped ==
  /\ pc = "done" /\ WhereOnly /\ ret.ok
  /\ \A i \in 1..Len(WhereConds) : NoValue(WhereConds[i]) \/ Shaped(WhereConds[i])
  =>
    \A s \in Statements :
      LET kept == SelectSeq(WhereConds, LAMBDA c : ~NoValue(c))
      IN /\ ColumnTokens(s.query) = [i \in 1..Len(kept) |-> kept[i].key]
         /\ \A i \in 1..Len(kept) :
              OperatorOf(kept[i]) = "IN" /\ IsArray(kept[i].value) =>
                /\ HasSub(s.query,
                          <<kept[i].key, "IN", "(">>
                          \o QuestionMarks(Len(kept[i].value.items)) \o <<")">>)
                /\ HasSub(s.values, kept[i].value.items)

(***************************************************************************)
(* C8.  A BETWEEN condition, in WHERE or HAVING, whose value is not a      *)
(* sequence of exactly two elements makes the call fail; one with          *)
(* [min, max] gives key BETWEEN ? AND ? and the values min, max.           *)
(***************************************************************************)
C8_BetweenNeedsRange ==
  pc = "done" /\ fn \in SelectBuilders =>
    \A c \in {WhereConds[i] : i \in 1..Len(WhereConds)}
             \cup {HavingConds[i] : i \in 1..Len(HavingConds)} :
      c.operator = Str("BETWEEN") =>
        IF ~IsRange(c.value) THEN ~ret.ok
        ELSE \A s \in Statements :
               /\ HasSub(s.query, <<c.key, "BETWEEN", "?", "AND", "?">>)
               /\ HasSub(s.values, c.value.items)

(***************************************************************************)
(* C9.  insertManyQuery on an allowed table and a non-empty row list: the  *)
(* canonical keys are the first row's allowed keys in its order (none: the *)
(* call fails); the call fails as inconsistent exactly when some row's set *)
(* of allowed keys differs from the canonical set; otherwise the column    *)
(* list appears once, there is one (?, ...) group per row, and the values  *)
(* are row-major in canonical key order, rows x keys of them.              *)
(***************************************************************************)
AllowedKeySet(r) == {r[i].key : i \in 1..Len(r)} \cap {args.allowedColumns[i] : i \in 1..Len(args.allowedColumns)}

C9_InsertMany ==
  Returned("insertManyQuery") /\ Includes(args.allowedTables, args.table)
  /\ Len(args.rows) > 0 =>
    LET canon == SelectSeq(ObjectKeys(args.rows[1]),
                           LAMBDA k : Includes(args.allowedColumns, k))
        n == Len(args.rows)
        m == Len(canon)
        group == <<"(">> \o QuestionMarks(m) \o <<")">>
    IN /\ m = 0 => ret = Throw("No valid columns to insert.")
       /\ m > 0 =>
            /\ ret = Throw("All rows must have the same set of allowed columns.")
                 <=> \E i \in 1..n : AllowedKeySet(args.rows[i]) # AllowedKeySet(args.rows[1])
            /\ ret.ok \/ ret = Throw("All rows must have the same set of allowed columns.")
       /\ ret.ok =>
            /\ ret.query = <<"INSERT INTO", args.table, "(">>
                           \o JoinTok([j \in 1..m |-> <<canon[j]>>], ",")
                           \o <<")", "VALUES">>
                           \o JoinTok([i \in 1..n |-> group], ",")
            /\ Len(ret.values) = n * m
            /\ \A i \in 1..n : \A j \in 1..m :
                 ret.values[(i - 1) * m + j] = Prop(args.rows[i], canon[j])

C9_Witness ==
  /\ Returned("insertManyQuery") /\ ret.ok
  /\ Len(args.rows) = MaxRows
  /\ Len(ret.values) = MaxRows * 2
  /\ ObjectKeys(args.rows[1]) # ObjectKeys(args.rows[2])

(***************************************************************************)
(* C10.  Both insert builders take an onDuplicate list: the names that are *)
(* allowed and inserted end the statement as ON DUPLICATE KEY UPDATE       *)
(* col = VALUES(col), ... in onDuplicate order, adding no values; with no  *)
(* such name the statement has no ON DUPLICATE KEY UPDATE.                 *)
(***************************************************************************)
InsertedColumns ==
  SelectSeq(ObjectKeys(IF fn = "insertOneQuery" THEN args.data ELSE args.rows[1]),
            LAMBDA k : Includes(args.allowedColumns, k))

C10_OnDuplicate ==
  pc = "done" /\ fn \in {"insertOneQuery", "insertManyQuery"} /\ ret.ok =>
    LET kept == SelectSeq(args.onDuplicate,
                  LAMBDA k : Includes(args.allowedColumns, k)
                             /\ Includes(InsertedColumns, k))
    IN /\ Placeholders(ret.query) = Len(ret.values)
       /\ IF Len(kept) > 0
          THEN EndsWith(ret.query,
                 <<"ON DUPLICATE KEY UPDATE">>
                 \o JoinTok([i \in 1..Len(kept) |->
                               <<kept[i], "=", "VALUES", "(", kept[i], ")">>], ","))
          ELSE ~Includes(ret.query, "ON DUPLICATE KEY UPDATE")

(***************************************************************************)
(* C11.  A listDatatableQuery call on an allowed table and whitelisted     *)
(* columns, with executions that succeed, issues exactly three executions, *)
(* unfiltered count, filtered count, paged data, each after the previous   *)
(* one completed, and returns draw, recordsTotal (first execution),        *)
(* recordsFiltered (second) and data (third); with a non-empty search the  *)
(* second and third statements carry one LIKE per allowed column, joined   *)
(* by OR.                                                                  *)
(***************************************************************************)
\* the call names only whitelisted tables and columns
DatatableWhitelisted ==
  /\ fn = "listDatatableQuery"
  /\ ~TableNotAllowed
  /\ args.extraWhere.kind = "array" =>
       \A i \in 1..Len(args.extraWhere.items) :
         IncludesValue(args.allowedColumns, args.extraWhere.items[i].key)
  /\ args.groupBy # Null => IncludesValue(args.allowedColumns, args.groupBy)
  /\ Includes(args.allowedColumns, args.colOrder)

\* col1 LIKE ? OR col2 LIKE ? OR ... over the allowed columns
SearchGroup ==
  JoinTok([i \in 1..Len(args.allowedColumns) |->
             <<args.allowedColumns[i], "LIKE", "?">>], "OR")

C11_ThreeExecutions ==
  DatatableWhitelisted =>
    /\ pc = "call" => Len(executed) = 0
    /\ pc = "awaitTotal" => Len(executed) = 1
    /\ pc = "awaitFiltered" => Len(executed) = 2
    /\ pc = "awaitData" => Len(executed) = 3
    /\ pc = "done" /\ ret # Throw("db error") =>
         /\ ret.ok
         /\ Len(executed) = 3
         /\ executed[1].query = <<"SELECT", "COUNT(1)", "as", "total", "FROM", args.table>>
                                \o buildJoinClause(args.joins, args.allowedTables).text
         /\ SubSeq(executed[2].query, 1, 2) \in {<<"SELECT", "COUNT(1)">>, <<"SELECT", "COUNT(*)">>}
         /\ SubSeq(executed[3].query, 1, 2) = <<"SELECT", "*">>
         /\ ret.draw = args.draw
         /\ ret.recordsTotal = locals[1]
         /\ ret.recordsFiltered = locals[2]
         /\ ret.data \in DataRows
         /\ Truthy(args.search) =>
              HasSub(executed[2].query, SearchGroup) /\ HasSub(executed[3].query, SearchGroup)

(***************************************************************************)
(* C12.  With a non-empty sort direction and a whitelisted sort column the *)
(* data statement listDatatableQuery executes third contains               *)
(* ORDER BY colOrder orders and is paged by start and length.              *)
(***************************************************************************)
C12_DatatableOrdered ==
  /\ fn = "listDatatableQuery" /\ Len(executed) = 3
  /\ args.orders # "" /\ Includes(args.allowedColumns, args.colOrder)
  => /\ HasSub(executed[3].query, <<"ORDER BY", args.colOrder, args.orders>>)
     /\ \/ EndsWith(executed[3].query,
                    <<"LIMIT", ToStr(args.start), ",", ToStr(args.length)>>)
        \/ /\ EndsWith(executed[3].query, <<"LIMIT", "?", "OFFSET", "?">>)
           /\ EndsWith(executed[3].values, <<args.length, args.start>>)

(***************************************************************************)
(* C13.  The legacy builder and the decomposed builders have the same      *)
(* WHERE semantics: on the same table and the same conditions over         *)
(* distinct whitelisted columns, with operators among =, LIKE, OR LIKE,    *)
(* >=, <=, >, <, IN and BETWEEN, both fail or both succeed, and when they  *)
(* succeed they emit the same conditions in the same order with the same   *)
(* AND/OR connective and return equal WHERE values.                        *)
(***************************************************************************)
ClaimedOperators ==
  {Str(o) : o \in {"=", "LIKE", "OR LIKE", ">=", "<=", ">", "<", "IN", "BETWEEN"}}

\* the tokens of a text after the first occurrence of tok, none if absent
AfterToken(text, tok) ==
  IF \A i \in 1..Len(text) : text[i] # tok THEN <<>>
  ELSE LET first == CHOOSE i \in 1..Len(text) :
                      text[i] = tok /\ \A j \in 1..(i - 1) : text[j] # tok
       IN SubSeq(text, first + 1, Len(text))

\* countQuery on the conditions of the legacy call, given as a list
DecomposedTwin ==
  countQuery([table |-> args.table, allowedTables |-> args.allowedTables,
              allowedColumns |-> args.allowedColumns, joins |-> <<>>,
              filters |-> CondsToList(WhereConds), groupBy |-> Null, having |-> <<>>])

\* connective and condition per emitted condition: the legacy text after
\* WHERE 1=1, the decomposed text after WHERE with the leading AND implied
LegacyConditions == AfterToken(ret.countQuery, "1=1")

DecomposedConditions ==
  LET w == AfterToken(DecomposedTwin.query, "WHERE")
  IN IF w = <<>> THEN <<>> ELSE <<"AND">> \o w

C13_SameWhereSemantics ==
  /\ Returned("listDataQuery") /\ WhereOnly
  /\ args.joins = <<>> /\ Includes(args.allowedTables, args.table)
  /\ \A i \in 1..Len(WhereConds) :
       /\ args.filters[i].val.kind = "object"
       /\ WhereConds[i].operator \in ClaimedOperators
       /\ Includes(args.allowedColumns, WhereConds[i].key)
       /\ ~NoValue(WhereConds[i]) /\ Shaped(WhereConds[i])
  => /\ ret.ok = DecomposedTwin.ok
     /\ ret.ok => /\ LegacyConditions = DecomposedConditions
                  /\ ret.countValues = DecomposedTwin.values

(***************************************************************************)
(* C14.  Every builder that takes joins emits each join, in input order,   *)
(* as TYPE JOIN table ON on right after the base table, TYPE being the     *)
(* type the join gives and LEFT when it gives none; the joins carry no     *)
(* placeholder.                                                            *)
(***************************************************************************)
\* statements returned by a SELECT/COUNT builder or executed by the
\* datatable call
JoinedStatements ==
  IF fn = "listDatatableQuery" THEN {executed[i] : i \in 1..Len(executed)}
  ELSE IF fn \in SelectBuilders THEN Statements
  ELSE {}

\* the tokens that follow the base table, five per join
JoinTokens(query) ==
  LET rest == AfterToken(query, args.table)
  IN SubSeq(rest, 1, 5 * Len(args.joins))

\* the type a join is to be emitted with, in either letter case
JoinTypes(join) ==
  IF Truthy(join.type) THEN {ToStr(join.type), ToUpperCase(ToStr(join.type))}
  ELSE {"LEFT"}

C14_JoinsEmitted ==
  \A s \in JoinedStatements :
    LET j == JoinTokens(s.query)
    IN /\ Len(j) = 5 * Len(args.joins)
       /\ \A i \in 1..Len(args.joins) :
            /\ j[5 * i - 4] \in JoinTypes(args.joins[i])
            /\ SubSeq(j, 5 * i - 3, 5 * i) =
                 <<"JOIN", args.joins[i].table, "ON", args.joins[i].on>>
       /\ Placeholders(j) = 0
====
